---- MODULE Spec2Model ----
(***************************************************************************)
(* Model of src/write.mjs: one run of main(), from the primary generation  *)
(* call to the write of .note-artifacts/draft.json.                        *)
(*                                                                         *)
(* A string is a sequence of symbols.  A symbol is a TLA+ string standing  *)
(* for one or more characters of the JavaScript string:                    *)
(*   "a" "b" "x" "y" "z"  one letter                                       *)
(*   "json" "null"        that word (letters only)                         *)
(*   "7"                  one digit                                        *)
(*   " " "\n"             one whitespace character                         *)
(*   "fence"              three backticks (backticks only come in threes)  *)
(*   "#" "," "}"          that character                                   *)
(*   "dq" "sq"            one double quote, one single quote               *)
(*   "zwsp"               U+200B                                           *)
(*   a name in DocNames   the compact one-line JSON text of an object; it  *)
(*                        starts with '{' and ends with '}'                *)
(***************************************************************************)
EXTENDS Integers, Sequences, FiniteSets, TLC

VARIABLES pc, inputTags, text, repairText, calls, stages, parsed, derived,
          title, draftBody, tags, draft, exitCode, error

vars == <<pc, inputTags, text, repairText, calls, stages, parsed, derived,
          title, draftBody, tags, draft, exitCode, error>>

\* Longest free-form generation output that is enumerated symbol by symbol.
MaxLen == 3

Min(S) == CHOOSE x \in S : \A y \in S : x <= y
Max(S) == CHOOSE x \in S : \A y \in S : x >= y
Range(s) == {s[i] : i \in 1..Len(s)}

----------------------------------------------------------------------------
(* JSON values.  A member of an object is undefined (absent), a string, a  *)
(* number, an array, or an object whose own "toString" member is not       *)
(* callable, e.g. {"toString":1} ("bad": String() of it throws TypeError). *)

Undef == [k |-> "undef", s |-> <<>>, a |-> <<>>]
Str(s) == [k |-> "str", s |-> s, a |-> <<>>]
Num7 == [k |-> "num", s |-> <<"7">>, a |-> <<>>]
BadObj == [k |-> "bad", s |-> <<>>, a |-> <<>>]
Arr(elems) == [k |-> "arr", s |-> <<>>, a |-> elems]

\* What JSON.parse returns, or the null that extractJsonFlexible returns: t is
\* the value's truthiness; a value that is no object has no members.
Null == [k |-> "null", t |-> FALSE, s |-> <<>>,
         title |-> Undef, draftBody |-> Undef, tags |-> Undef]
Number(digits) == [k |-> "num", t |-> TRUE, s |-> digits,
                   title |-> Undef, draftBody |-> Undef, tags |-> Undef]
StringValue(s) == [k |-> "str", t |-> s # <<>>, s |-> s,
                   title |-> Undef, draftBody |-> Undef, tags |-> Undef]
Obj(t, b, g) == [k |-> "obj", t |-> TRUE, s |-> <<>>,
                 title |-> t, draftBody |-> b, tags |-> g]

\* The JSON objects a generation output may contain, by the name of their text.
Docs ==
     "{good}"       :> Obj(Str(<<"#", " ", "a">>), Str(<<"b">>),
                           Arr(<<Str(<<"x">>), Str(<<"x">>), Str(<<"y">>)>>))
  @@ "{xy}"         :> Obj(Str(<<"a">>), Str(<<"b", "\n", "b">>),
                           Arr(<<Str(<<"x">>), Str(<<"y">>)>>))
  @@ "{padBody}"    :> Obj(Str(<<"a">>), Str(<<" ", "b", "\n">>), Arr(<<>>))
  @@ "{emptyBody}"  :> Obj(Str(<<"a">>), Str(<<>>), Arr(<<Str(<<"x">>)>>))
  @@ "{blankBody}"  :> Obj(Str(<<"a">>), Str(<<" ", "\n">>), Arr(<<Str(<<"x">>)>>))
  @@ "{noBody}"     :> Obj(Str(<<"a">>), Undef, Arr(<<Str(<<"y">>)>>))
  @@ "{emptyTitle}" :> Obj(Str(<<>>), Str(<<"b">>), Arr(<<Str(<<"y">>)>>))
  @@ "{blankTitle}" :> Obj(Str(<<" ", " ">>), Str(<<"b">>), Arr(<<>>))
  @@ "{noTitle}"    :> Obj(Undef, Str(<<"b">>), Arr(<<Str(<<"x">>)>>))
  @@ "{jsonTitle}"  :> Obj(Str(<<"fence", "json">>), Str(<<"b">>), Arr(<<>>))
  @@ "{quoteTitle}" :> Obj(Str(<<"dq", "sq", "a", "sq", "dq">>), Str(<<"b">>), Arr(<<>>))
  @@ "{tickTitle}"  :> Obj(Str(<<"fence", "json", "fence">>), Str(<<"b">>), Arr(<<>>))
  @@ "{numTitle}"   :> Obj(Num7, Str(<<"b">>), Arr(<<Num7, Str(<<"x">>)>>))
  @@ "{noTags}"     :> Obj(Str(<<"a">>), Str(<<"b">>), Undef)
  @@ "{strTags}"    :> Obj(Str(<<"a">>), Str(<<"b">>), Str(<<"x">>))
  @@ "{badTitle}"   :> Obj(BadObj, Str(<<"b">>), Arr(<<>>))
  @@ "{badBody}"    :> Obj(Str(<<"a">>), BadObj, Arr(<<>>))
  @@ "{badTag}"     :> Obj(Str(<<"a">>), Str(<<"b">>), Arr(<<Str(<<"x">>), BadObj>>))
  @@ "{}"           :> Obj(Undef, Undef, Undef)

DocNames == DOMAIN Docs

----------------------------------------------------------------------------
(* Character classes and the String.prototype helpers the code uses.       *)

IsSpace(c) == c \in {" ", "\n"}
IsLetter(c) == c \in {"a", "b", "x", "y", "z", "json", "null"}
IsWordCh(c) == IsLetter(c) \/ c = "7"
HasOpenBrace(c) == c \in DocNames
HasCloseBrace(c) == c = "}" \/ c \in DocNames

TrimStart(s) ==
  LET keep == {i \in 1..Len(s) : ~IsSpace(s[i])}
  IN  IF keep = {} THEN <<>> ELSE SubSeq(s, Min(keep), Len(s))

TrimEnd(s) ==
  LET keep == {i \in 1..Len(s) : ~IsSpace(s[i])}
  IN  IF keep = {} THEN <<>> ELSE SubSeq(s, 1, Max(keep))

Trim(s) == TrimEnd(TrimStart(s))

\* s.split(sep): the pieces between the occurrences of the symbol sep.
RECURSIVE SplitOn(_, _)
SplitOn(s, sep) ==
  LET at == {i \in 1..Len(s) : s[i] = sep}
  IN  IF at = {} THEN <<s>>
      ELSE <<SubSeq(s, 1, Min(at) - 1)>> \o SplitOn(SubSeq(s, Min(at) + 1, Len(s)), sep)

\* lines.join(LF)
RECURSIVE JoinLines(_)
JoinLines(lines) ==
  IF lines = <<>> THEN <<>>
  ELSE IF Len(lines) = 1 THEN lines[1]
  ELSE lines[1] \o <<"\n">> \o JoinLines(Tail(lines))

\* Removal of a leading (/^c+/) or a trailing (/c+$/) run of the symbol c.
StripLeading(s, c) ==
  LET keep == {i \in 1..Len(s) : s[i] # c}
  IN  IF keep = {} THEN <<>> ELSE SubSeq(s, Min(keep), Len(s))

StripTrailing(s, c) ==
  LET keep == {i \in 1..Len(s) : s[i] # c}
  IN  IF keep = {} THEN <<>> ELSE SubSeq(s, 1, Max(keep))

RemoveZwsp(s) == SelectSeq(s, LAMBDA c : c # "zwsp")

----------------------------------------------------------------------------
(* JSON.parse on the strings of this alphabet: surrounding JSON whitespace *)
(* is allowed; the text of one object, null, a number or a string literal  *)
(* parses; anything else throws SyntaxError (ok = FALSE).                  *)

JsonParse(s) ==
  LET t == Trim(s)
      inner == SubSeq(t, 2, Len(t) - 1)
  IN  IF Len(t) = 1 /\ t[1] \in DocNames THEN [ok |-> TRUE, v |-> Docs[t[1]]]
      ELSE IF t = <<"null">> THEN [ok |-> TRUE, v |-> Null]
      ELSE IF t # <<>> /\ \A i \in 1..Len(t) : t[i] = "7"
        THEN [ok |-> TRUE, v |-> Number(t)]
      ELSE IF /\ Len(t) >= 2 /\ t[1] = "dq" /\ t[Len(t)] = "dq"
              /\ \A i \in 1..Len(inner) :
                    inner[i] \notin ({"dq", "\n"} \cup DocNames)
        THEN [ok |-> TRUE, v |-> StringValue(inner)]
      ELSE [ok |-> FALSE, v |-> Null]

\* text.match(/```[a-zA-Z]*\s*([\s\S]*?)\s*```/): the leftmost opening fence
\* that has a later fence; the language letters and the whitespace after it
\* are skipped greedily; group 1 runs lazily up to the whitespace before the
\* next fence.
FenceMatch(t) ==
  LET fences == {i \in 1..Len(t) : t[i] = "fence"}
      open == Min(fences)
      afterLang == Min({i \in (open + 1)..Len(t) : ~IsLetter(t[i])})
      start == Min({i \in afterLang..Len(t) : ~IsSpace(t[i])})
      close == Min({i \in fences : i >= start})
  IN  IF Cardinality(fences) < 2 THEN [found |-> FALSE, g |-> <<>>]
      ELSE [found |-> TRUE, g |-> TrimEnd(SubSeq(t, start, close - 1))]

\* text.slice(firstBrace, lastBrace + 1) when lastBrace > firstBrace.  One
\* symbol holds both braces only if it is the text of an object, whose '}'
\* comes after its '{'.
BraceSlice(t) ==
  LET opens == {i \in 1..Len(t) : HasOpenBrace(t[i])}
      closes == {i \in 1..Len(t) : HasCloseBrace(t[i])}
      firstBrace == Min(opens)
      lastBrace == Max(closes)
  IN  IF opens # {} /\ closes # {} /\ lastBrace >= firstBrace
        THEN [found |-> TRUE, s |-> SubSeq(t, firstBrace, lastBrace)]
        ELSE [found |-> FALSE, s |-> <<>>]

CleanText(raw) == RemoveZwsp(Trim(raw))
DirectParse(raw) == JsonParse(CleanText(raw))
FenceTried(raw) ==
  LET f == FenceMatch(CleanText(raw)) IN f.found /\ f.g # <<>>
FenceParse(raw) == JsonParse(Trim(FenceMatch(CleanText(raw)).g))
SliceTried(raw) == BraceSlice(CleanText(raw)).found
SliceParse(raw) == JsonParse(BraceSlice(CleanText(raw)).s)

\* extractJsonFlexible(raw): the value it returns (v) and the parses it
\* attempts, in the order it attempts them, each with whether it returned
\* (ok) or threw.
Stage(src, name, ok) == [src |-> src, stage |-> name, ok |-> ok]
Extract(raw, src) ==
  LET direct == DirectParse(raw)
      fenceTried == FenceTried(raw)
      fence == FenceParse(raw)
      sliceTried == SliceTried(raw)
      slice == SliceParse(raw)
  IN  IF direct.ok
        THEN [v |-> direct.v, stages |-> <<Stage(src, "direct", TRUE)>>]
      ELSE IF fenceTried /\ fence.ok
        THEN [v |-> fence.v,
              stages |-> <<Stage(src, "direct", FALSE), Stage(src, "fence", TRUE)>>]
      ELSE [v |-> IF sliceTried /\ slice.ok THEN slice.v ELSE Null,
            stages |->
              <<Stage(src, "direct", FALSE)>>
              \o (IF fenceTried THEN <<Stage(src, "fence", FALSE)>> ELSE <<>>)
              \o (IF sliceTried THEN <<Stage(src, "slice", slice.ok)>> ELSE <<>>)]

extractJsonFlexible(raw) == Extract(raw, "primary").v

\* What repairJson does with the response text rt of its generation call.
repairJson(rt) ==
  LET first == JsonParse(rt)
      again == Extract(rt, "repair")
  IN  IF first.ok
        THEN [v |-> first.v, stages |-> <<Stage("repair", "parse", TRUE)>>]
        ELSE [v |-> again.v,
              stages |-> <<Stage("repair", "parse", FALSE)>> \o again.stages]

----------------------------------------------------------------------------
(* String(value), value || '' and the title and tag helpers.  A result     *)
(* with threw = TRUE is a TypeError thrown by the conversion.              *)

FieldTruthy(v) == IF v.k = "str" THEN v.s # <<>> ELSE v.k # "undef"
OrEmpty(v) == IF FieldTruthy(v) THEN v ELSE Str(<<>>)

RECURSIVE JoinComma(_)
JoinComma(strs) ==
  IF strs = <<>> THEN <<>>
  ELSE IF Len(strs) = 1 THEN strs[1]
  ELSE strs[1] \o <<",">> \o JoinComma(Tail(strs))

\* String(e) of an array element or member that is not itself an array.
ElemString(e) ==
  CASE e.k = "str" -> [threw |-> FALSE, s |-> e.s]
    [] e.k = "num" -> [threw |-> FALSE, s |-> e.s]
    [] e.k = "bad" -> [threw |-> TRUE, s |-> <<>>]
    [] OTHER -> [threw |-> FALSE, s |-> <<"undefined">>]

String(v) ==
  IF v.k = "arr"
    THEN [threw |-> \E i \in 1..Len(v.a) : ElemString(v.a[i]).threw,
          s |-> JoinComma([i \in 1..Len(v.a) |-> ElemString(v.a[i]).s])]
    ELSE ElemString(v)

PlaceholderTitle == <<"(placeholder title)">>

\* title.replace(/^```[a-zA-Z0-9_-]*\s*$/, '').replace(/^```$/, '')
StripFenceLine(t) ==
  IF /\ t # <<>> /\ t[1] = "fence"
     /\ \E k \in 1..Len(t) : /\ \A i \in 2..k : IsWordCh(t[i])
                             /\ \A i \in (k + 1)..Len(t) : IsSpace(t[i])
    THEN <<>> ELSE t

\* title.replace(/^#+\s*/, '')
StripHeading(t) ==
  IF t # <<>> /\ t[1] = "#" THEN TrimStart(StripLeading(t, "#")) ELSE t

\* title.replace(/^"+|"+$/g, '') and likewise for ' and for the backtick
StripWrapping(t, c) == StripTrailing(StripLeading(t, c), c)

\* title.replace(/^json$/i, '').trim()
StripJsonLabel(t) == IF t = <<"json">> THEN <<>> ELSE Trim(t)

\* sanitizeTitle without lines 91-93.
sanitizeTitleNoPlaceholder(value) ==
  LET str == String(OrEmpty(value))
  IN  [threw |-> str.threw,
       s |-> StripJsonLabel(StripWrapping(StripWrapping(StripWrapping(
               StripHeading(StripFenceLine(Trim(str.s))), "dq"), "sq"), "fence"))]

sanitizeTitle(value) ==
  LET str == String(OrEmpty(value))
      t1 == StripFenceLine(Trim(str.s))
      t2 == StripHeading(t1)
      t3 == StripWrapping(StripWrapping(t2, "dq"), "sq")
      t4 == StripWrapping(t3, "fence")
      t5 == StripJsonLabel(t4)
  IN  [threw |-> str.threw,
       s |-> IF t5 = <<>> THEN PlaceholderTitle ELSE t5]

NonEmptyTrimmed(lines) ==
  SelectSeq([i \in 1..Len(lines) |-> Trim(lines[i])], LAMBDA l : l # <<>>)

deriveTitleFromText(t) ==
  LET lines == NonEmptyTrimmed(SplitOn(t, "\n"))
      real == {i \in 1..Len(lines) : lines[i][1] # "fence"}
      firstRealLine == IF real # {} THEN lines[Min(real)]
                       ELSE IF lines # <<>> THEN lines[1] ELSE <<>>
  IN  sanitizeTitle(Str(firstRealLine)).s

\* lines.slice(1).join('\n').trim() || text
DeriveBody(t) ==
  LET rest == Trim(JoinLines(Tail(SplitOn(t, "\n"))))
  IN  IF rest # <<>> THEN rest ELSE t

\* (process.env.INPUT_TAGS || '').split(',').map(trim).filter(Boolean)
ParseInputTags(env) == NonEmptyTrimmed(SplitOn(env, ","))

\* Array.from(list): every entry kept.
SetOrderKeepingAll(list) == list

\* Array.from(new Set(list)): the first occurrence of each entry, in order.
SetOrder(list) ==
  LET firsts == {i \in 1..Len(list) : \A j \in 1..(i - 1) : list[j] # list[i]}
      nth[n \in 1..Cardinality(firsts)] ==
        CHOOSE i \in firsts : Cardinality({j \in firsts : j < i}) = n - 1
  IN  [n \in 1..Cardinality(firsts) |-> list[nth[n]]]

\* tags = Array.from(new Set(inputTags)): the extracted tags dropped.
MergeTagsInputOnly(extracted, input) ==
  IF input # <<>> THEN SetOrder(input) ELSE extracted

\* Lines 146-149 of main.
MergeTags(extracted, input) ==
  IF input # <<>> THEN SetOrder(extracted \o input) ELSE extracted

\* Line 135 without .trim().
FromParsedUntrimmed(p) ==
  LET st == sanitizeTitle(p.title)
      sb == String(OrEmpty(p.draftBody))
      n == IF p.tags.k = "arr" THEN Len(p.tags.a) ELSE 0
  IN  [threw |-> \/ st.threw \/ sb.threw
                 \/ \E i \in 1..n : ElemString(p.tags.a[i]).threw,
       title |-> st.s,
       draftBody |-> sb.s,
       tags |-> [i \in 1..n |-> ElemString(p.tags.a[i]).s]]

\* Lines 129-144 of main: the record built from the parsed value p and the
\* primary output t; threw when a String() conversion of lines 134-136 throws.
FromParsed(p) ==
  LET st == sanitizeTitle(p.title)
      sb == String(OrEmpty(p.draftBody))
      n == IF p.tags.k = "arr" THEN Len(p.tags.a) ELSE 0
  IN  [threw |-> \/ st.threw \/ sb.threw
                 \/ \E i \in 1..n : ElemString(p.tags.a[i]).threw,
       title |-> st.s,
       draftBody |-> Trim(sb.s),
       tags |-> [i \in 1..n |-> ElemString(p.tags.a[i]).s]]

\* Line 139 as if (!parsed).
UseDerivedOnlyWithoutJson(p, r) == ~p.t

\* Line 139: !title || !draftBody, for the record r of a truthy p.
UseDerived(p, r) == ~p.t \/ r.title = <<>> \/ r.draftBody = <<>>

BuildDraft(p, t) ==
  LET r == FromParsed(p)
  IN  IF p.t /\ r.threw
        THEN [threw |-> TRUE, derived |-> FALSE,
              title |-> <<>>, draftBody |-> <<>>, tags |-> <<>>]
      ELSE IF UseDerived(p, r)
        THEN [threw |-> FALSE, derived |-> TRUE,
              title |-> deriveTitleFromText(t), draftBody |-> DeriveBody(t),
              tags |-> <<>>]
      ELSE [threw |-> FALSE, derived |-> FALSE,
            title |-> r.title, draftBody |-> r.draftBody, tags |-> r.tags]

----------------------------------------------------------------------------
(* The inputs of a run.                                                    *)

TextChars == {"a", " ", "\n", "fence", "zwsp", "}", "{good}"}

RECURSIVE TextsUpTo(_)
TextsUpTo(n) ==
  IF n = 0 THEN {<<>>}
  ELSE LET shorter == TextsUpTo(n - 1)
       IN  shorter \cup {Append(t, c) : t \in {u \in shorter : Len(u) = n - 1},
                                        c \in TextChars}

SampleTexts == {
  <<"fence", "json", "\n", "{xy}", "\n", "fence">>,
  <<"a", " ", "{xy}", " ", "a">>,
  <<"fence", "a", "fence", "{good}", "}">>,
  <<"fence", "json", "\n", "{emptyBody}", "\n", "fence">>,
  <<"a", "\n", "b">>,
  <<"\n", "a", "\n", "b">>,
  <<"fence", "\n", "a", "\n", "b">>,
  <<"#", " ", "a", "\n", "b">>,
  <<"fence", "json", "\n", "fence">>,
  <<"fence", "\n", "null", "\n", "fence", "\n", "{good}">>,
  <<"null">>, <<"7">>, <<"json">>, <<"dq", "dq">>, <<"dq", "a", "dq">> }

\* The texts the primary generation call may return.
PrimaryTexts == TextsUpTo(MaxLen) \cup {<<d>> : d \in DocNames} \cup SampleTexts

\* The texts the repair generation call may return.
RepairTexts == {
  <<>>, <<"b">>, <<"b", "\n", "a">>, <<"null">>,
  <<"{xy}">>, <<"{emptyBody}">>, <<"{badTag}">>,
  <<"fence", "{good}", "fence">> }

\* The values of the environment variable INPUT_TAGS.
InputTagEnvs == {
  <<>>, <<"x">>, <<"y", ",", "z">>, <<" ", "y", ",", " ", "y", ",">> }

----------------------------------------------------------------------------
(* One run of main().  pc is the position of the run:                      *)
(*   "start"    before the primary generateText call (line 118)            *)
(*   "primary"  awaiting the primary call                                  *)
(*   "repair"   awaiting the call of repairJson (line 67)                  *)
(*   "built"    title, draftBody and tags are set (line 145)               *)
(*   "done"     draft.json is written                                      *)
(*   "failed"   main() rejected and the catch handler of line 155 ran, or   *)
(*              the process exited at line 7                               *)

Init ==
  /\ pc = "start"
  /\ inputTags \in {ParseInputTags(e) : e \in InputTagEnvs}
  /\ text = <<>>
  /\ repairText = <<>>
  /\ calls = <<>>
  /\ stages = <<>>
  /\ parsed = Null
  /\ derived = FALSE
  /\ title = <<>>
  /\ draftBody = <<>>
  /\ tags = <<>>
  /\ draft = <<>>
  /\ exitCode = 0
  /\ error = "none"

\* The handler of lines 155-158 without process.exitCode = 1.
FailKeepingExitCode(kind) ==
  /\ pc' = "failed"
  /\ error' = kind
  /\ exitCode' = exitCode

\* main() rejects with the error kind; the handler of lines 155-158 runs.
Fail(kind) ==
  /\ pc' = "failed"
  /\ error' = kind
  /\ exitCode' = 1

\* Line 127: the repair call is made when extractJsonFlexible gave no value.
NeedsRepair(p) == ~p.t

\* Lines 129-144 with the parsed value p and the primary output t.
Build(p, t) ==
  LET d == BuildDraft(p, t)
  IN  IF d.threw
        THEN /\ Fail("TypeError")
             /\ UNCHANGED <<derived, title, draftBody, tags>>
        ELSE /\ pc' = "built"
             /\ derived' = d.derived
             /\ title' = d.title
             /\ draftBody' = d.draftBody
             /\ tags' = d.tags
             /\ UNCHANGED <<exitCode, error>>

\* Lines 113-125: the research document is read and the primary call is made.
CallPrimary ==
  /\ pc = "start"
  /\ pc' = "primary"
  /\ calls' = Append(calls, "primary")
  /\ UNCHANGED <<inputTags, text, repairText, stages, parsed, derived, title,
                 draftBody, tags, draft, exitCode, error>>

\* Lines 4-8: no API key is set; the process exits with status 1.
MissingKey ==
  /\ pc = "start"
  /\ pc' = "failed"
  /\ error' = "MissingKey"
  /\ exitCode' = 1
  /\ UNCHANGED <<inputTags, text, repairText, calls, stages, parsed, derived,
                 title, draftBody, tags, draft>>

\* readResearchMarkdown throws (lines 27-34).
ResearchUnreadable ==
  /\ pc = "start"
  /\ Fail("ReadError")
  /\ UNCHANGED <<inputTags, text, repairText, calls, stages, parsed, derived,
                 title, draftBody, tags, draft>>

\* The primary call rejects.
PrimaryFails ==
  /\ pc = "primary"
  /\ Fail("GenerationError")
  /\ UNCHANGED <<inputTags, text, repairText, calls, stages, parsed, derived,
                 title, draftBody, tags, draft>>

\* The primary call returns t: line 127 up to the await in repairJson, or
\* through line 144 when t held a JSON value.
PrimaryReturns(t) ==
  LET x == Extract(t, "primary")
  IN  /\ pc = "primary"
      /\ text' = t
      /\ stages' = x.stages
      /\ parsed' = x.v
      /\ IF NeedsRepair(x.v)
           THEN /\ pc' = "repair"
                /\ calls' = Append(calls, "repair")
                /\ UNCHANGED <<derived, title, draftBody, tags, exitCode, error>>
           ELSE /\ Build(x.v, t)
                /\ UNCHANGED calls
      /\ UNCHANGED <<inputTags, repairText, draft>>

\* The call of repairJson rejects.
RepairFails ==
  /\ pc = "repair"
  /\ Fail("GenerationError")
  /\ UNCHANGED <<inputTags, text, repairText, calls, stages, parsed, derived,
                 title, draftBody, tags, draft>>

\* RepairReturns with lines 140-142 reading the repair response.
RepairReturnsDerivingFromResponse(rt) ==
  LET x == repairJson(rt)
  IN  /\ pc = "repair"
      /\ repairText' = rt
      /\ stages' = stages \o x.stages
      /\ parsed' = x.v
      /\ Build(x.v, rt)
      /\ UNCHANGED <<inputTags, text, calls, draft>>

\* The call of repairJson returns rt: lines 77-81, then lines 129-144.
RepairReturns(rt) ==
  LET x == repairJson(rt)
  IN  /\ pc = "repair"
      /\ repairText' = rt
      /\ stages' = stages \o x.stages
      /\ parsed' = x.v
      /\ Build(x.v, text)
      /\ UNCHANGED <<inputTags, text, calls, draft>>

\* Lines 146-152: the tags are merged and the record is written.
WriteDraft ==
  /\ pc = "built"
  /\ tags' = MergeTags(tags, inputTags)
  /\ draft' = <<[title |-> title, draftBody |-> draftBody,
                 tags |-> MergeTags(tags, inputTags)]>>
  /\ pc' = "done"
  /\ UNCHANGED <<inputTags, text, repairText, calls, stages, parsed, derived,
                 title, draftBody, exitCode, error>>

Next ==
  \/ MissingKey
  \/ CallPrimary
  \/ ResearchUnreadable
  \/ PrimaryFails
  \/ \E t \in PrimaryTexts : PrimaryReturns(t)
  \/ RepairFails
  \/ \E rt \in RepairTexts : RepairReturns(rt)
  \/ WriteDraft

Spec == Init /\ [][Next]_vars

----------------------------------------------------------------------------
(* Properties of a run.                                                    *)

NoDuplicates(list) ==
  \A i, j \in 1..Len(list) : list[i] = list[j] => i = j

RepairCalled == "repair" \in Range(calls)

\* String() of each member of the parsed tags array.
CoercedTags(v) == [i \in 1..Len(v.tags.a) |-> ElemString(v.tags.a[i]).s]

\* The primary output is itself the text of a JSON object with a string
\* title, a string draftBody and an array tags.
RawJson == JsonParse(text).v
RawIsExpectedJson ==
  /\ pc \in {"built", "done", "failed"}
  /\ JsonParse(text).ok
  /\ RawJson.k = "obj"
  /\ RawJson.title.k = "str"
  /\ RawJson.draftBody.k = "str"
  /\ RawJson.tags.k = "arr"

\* C1: a written draft record has a title that is not empty and not blank.
C1_TitleNeverEmpty ==
  draft # <<>> => draft[1].title # <<>> /\ Trim(draft[1].title) # <<>>

\* C1 witness: the parsed object's title was absent, empty or blank and the
\* record written carries the placeholder.
C1_Witness ==
  /\ pc = "done"
  /\ parsed.k = "obj"
  /\ ~derived
  /\ parsed.title.k \in {"undef", "str"}
  /\ Trim(parsed.title.s) = <<>>
  /\ draft[1].title = PlaceholderTitle

\* C2 as stated: when the primary output is a JSON object of the expected
\* shape, the record before tag merging has the sanitized parsed title, the
\* parsed draftBody itself and the coerced parsed tags.
C2_Original ==
  (pc = "built" /\ RawIsExpectedJson) =>
    /\ title = sanitizeTitle(RawJson.title).s
    /\ draftBody = RawJson.draftBody.s
    /\ tags = CoercedTags(RawJson)

\* C2 amended: when the primary output is a JSON object of the expected
\* shape, the record before tag merging has the sanitized parsed title, the
\* parsed draftBody with surrounding whitespace removed and the coerced
\* parsed tags, provided that trimmed draftBody is not empty; when it is
\* empty the record is the one derived from the raw text, with no tags.
C2_Amended ==
  (pc = "built" /\ RawIsExpectedJson) =>
    IF Trim(RawJson.draftBody.s) # <<>>
      THEN /\ title = sanitizeTitle(RawJson.title).s
           /\ draftBody = Trim(RawJson.draftBody.s)
           /\ tags = CoercedTags(RawJson)
      ELSE /\ title = deriveTitleFromText(text)
           /\ draftBody = DeriveBody(text)
           /\ tags = <<>>

\* C2 witness: a record built from a JSON object whose draftBody has
\* surrounding whitespace around a non-blank body.
C2_Witness ==
  /\ pc = "built"
  /\ RawIsExpectedJson
  /\ Trim(RawJson.draftBody.s) # <<>>
  /\ Trim(RawJson.draftBody.s) # RawJson.draftBody.s
  /\ draftBody = Trim(RawJson.draftBody.s)

\* C3: the extraction is total: a run fails only for a missing key, an
\* unreadable research document or a failed generation call, never inside
\* lines 127-144.
C3_ExtractionTotal ==
  pc = "failed" => error \in {"MissingKey", "ReadError", "GenerationError"}

\* C4 as stated: the tags of a written record never repeat an entry.
C4_Original ==
  draft # <<>> => NoDuplicates(draft[1].tags)

\* C4 amended: every written tag is an input tag or String() of a member of
\* the parsed tags array, and the written tags repeat no entry whenever the
\* caller supplied at least one input tag.
C4_Amended ==
  draft # <<>> =>
    /\ Range(draft[1].tags) \subseteq
         Range(inputTags) \cup {ElemString(e).s : e \in Range(parsed.tags.a)}
    /\ inputTags # <<>> => NoDuplicates(draft[1].tags)

\* C4 witness: input tags were supplied, the parsed tags array repeats a
\* value and the record was written from it.
C4_Witness ==
  /\ pc = "done"
  /\ inputTags # <<>>
  /\ ~derived
  /\ parsed.tags.k = "arr"
  /\ ~NoDuplicates(parsed.tags.a)
  /\ NoDuplicates(draft[1].tags)

\* C5: when input tags are supplied, the written tags are, as a set, the
\* union of the extracted tags and the input tags, each once.
C5_MergeIsUnion ==
  [][(pc = "built" /\ pc' = "done" /\ inputTags # <<>>) =>
       /\ Range(draft'[1].tags) = Range(tags) \cup Range(inputTags)
       /\ NoDuplicates(draft'[1].tags)]_vars

\* C5 witness: extracted tags x, y and input tags y, z are written as x, y, z.
C5_Witness ==
  /\ pc = "done"
  /\ ~derived
  /\ parsed.tags.k = "arr"
  /\ CoercedTags(parsed) = <<<<"x">>, <<"y">>>>
  /\ inputTags = <<<<"y">>, <<"z">>>>
  /\ draft[1].tags = <<<<"x">>, <<"y">>, <<"z">>>>

\* C6: after a generation call has failed the run has failed, no draft is
\* written and the exit status is 1.
C6_CallFailureIsFatal ==
  error = "GenerationError" => pc = "failed" /\ draft = <<>> /\ exitCode = 1

\* C6 witness: the repair call failed.
C6_Witness ==
  /\ pc = "failed"
  /\ error = "GenerationError"
  /\ RepairCalled
  /\ exitCode = 1

StageRank(name) ==
  CASE name = "parse" -> 0
    [] name = "direct" -> 1
    [] name = "fence" -> 2
    [] name = "slice" -> 3

\* The parses of one text come in the fixed order and all but the last threw.
StagesOrdered(seq) ==
  \A i, j \in 1..Len(seq) :
    i < j => StageRank(seq[i].stage) < StageRank(seq[j].stage) /\ ~seq[i].ok

PrimaryStages == SelectSeq(stages, LAMBDA e : e.src = "primary")
RepairStages == SelectSeq(stages, LAMBDA e : e.src = "repair")

\* Each structural parse of the primary output taken alone: whether it gives
\* a JSON value the run can use.
DirectYields == DirectParse(text).ok /\ DirectParse(text).v.t
FenceYields == FenceTried(text) /\ FenceParse(text).ok /\ FenceParse(text).v.t
SliceYields == SliceTried(text) /\ SliceParse(text).ok /\ SliceParse(text).v.t

\* C7: the parses run in the fixed order, each only after the earlier ones
\* gave nothing; at most the primary call and then one repair call are made;
\* the repair call is made only when none of the three structural parses of
\* the primary output gives a value.
C7_RepairOnlyAfterAllParsesFailed ==
  /\ calls \in {<<>>, <<"primary">>, <<"primary", "repair">>}
  /\ stages = PrimaryStages \o RepairStages
  /\ StagesOrdered(PrimaryStages)
  /\ StagesOrdered(RepairStages)
  /\ RepairStages # <<>> => RepairCalled
  /\ RepairCalled => ~DirectYields /\ ~FenceYields /\ ~SliceYields

\* C8 as stated: the record is derived from the raw text only when no JSON
\* object was obtained.
C8_Original ==
  (pc \in {"built", "done"} /\ derived) => parsed.k # "obj"

\* C8 amended: the record is derived from the raw text exactly when no JSON
\* object was obtained or the obtained object's draftBody is missing, empty
\* or blank; otherwise title, draftBody and tags come from the object.
C8_Amended ==
  /\ pc \in {"built", "done"} =>
       (derived <=> \/ parsed.k # "obj"
                    \/ Trim(String(OrEmpty(parsed.draftBody)).s) = <<>>)
  /\ (pc = "built" /\ ~derived) =>
       /\ title = sanitizeTitle(parsed.title).s
       /\ draftBody = Trim(String(OrEmpty(parsed.draftBody)).s)
       /\ tags = IF parsed.tags.k = "arr" THEN CoercedTags(parsed) ELSE <<>>

\* C8 witness: a JSON object with tags was obtained, its draftBody is empty
\* or blank, and the record was derived from the raw text without the tags.
C8_Witness ==
  /\ pc = "built"
  /\ derived
  /\ parsed.k = "obj"
  /\ parsed.tags.k = "arr"
  /\ parsed.tags.a # <<>>
  /\ tags = <<>>

\* The first line of t that is not blank and does not start with a fence.
TitleLines(t) ==
  {i \in 1..Len(SplitOn(t, "\n")) :
     LET l == Trim(SplitOn(t, "\n")[i]) IN l # <<>> /\ l[1] # "fence"}

\* t without its line number n, or all of t when nothing remains.
WithoutLine(t, n) ==
  LET lines == SplitOn(t, "\n")
      rest == JoinLines(SubSeq(lines, 1, n - 1) \o SubSeq(lines, n + 1, Len(lines)))
  IN  IF Trim(rest) # <<>> THEN rest ELSE t

\* C9: when no JSON value was obtained, the derived record has the sanitized
\* first real line of the raw text as title, the raw text without that same
\* line as body (surrounding whitespace aside), and no tags.
C9_DerivedBodyOmitsTitleLine ==
  (pc = "built" /\ derived /\ ~parsed.t /\ TitleLines(text) # {}) =>
    /\ title = sanitizeTitle(Str(Trim(SplitOn(text, "\n")[Min(TitleLines(text))]))).s
    /\ Trim(draftBody) = Trim(WithoutLine(text, Min(TitleLines(text))))
    /\ tags = <<>>

\* C10: when the repair call was made and gave no JSON value, the written
\* title and body are the ones derived from the primary output and the tags
\* are the input tags alone.
C10_DerivedFromPrimaryText ==
  (pc = "done" /\ RepairCalled /\ ~parsed.t) =>
    /\ draft[1].title = deriveTitleFromText(text)
    /\ draft[1].draftBody = DeriveBody(text)
    /\ Range(draft[1].tags) = Range(inputTags)

\* C10 witness: the repair response is prose that differs from the primary
\* output, and the written record follows the primary output.
C10_Witness ==
  /\ pc = "done"
  /\ RepairCalled
  /\ ~parsed.t
  /\ Trim(repairText) # <<>>
  /\ deriveTitleFromText(repairText) # deriveTitleFromText(text)
  /\ DeriveBody(repairText) # DeriveBody(text)
  /\ draft[1].title = deriveTitleFromText(text)

====
